---- MODULE Spec2Model ----
(***************************************************************************)
(* Wallet ledger: deposits, scheduled withdrawals, the periodic sweep that *)
(* claims due withdrawals and the per-withdrawal execution against the     *)
(* settlement provider.                                                    *)
(*                                                                         *)
(* The store is modelled as a relational database at READ COMMITTED:       *)
(* the variables wallets, transactions and withdrawals hold the COMMITTED  *)
(* rows; what an open store transaction has written and not yet committed  *)
(* lives in the record of the process that runs it (dep[p], sw[s]), with   *)
(* the row locks it holds.  A statement that needs a locked row waits: its *)
(* action is not enabled.                                                  *)
(***************************************************************************)
EXTENDS Integers, Sequences, FiniteSets

\* ---------------------------------------------------------------- bounds
MaxWallets == 2        \* wallets that can be created
MaxAmount == 2         \* largest amount a withdrawal request carries
MaxDeposit == 1        \* largest amount a deposit request carries
MaxBalance == 2        \* deposits are not issued beyond this balance
MaxTransactions == 2   \* deposits are not issued beyond this ledger length
MaxWithdrawals == 2    \* scheduled withdrawals that can be created
MaxTime == 2           \* the clock stops here
NumDepositors == 1     \* concurrent deposit requests
NumSweepers == 2       \* concurrent scheduler workers

\* ------------------------------------------------------ program constants
TicksPerMinute == 2    \* one minute of the sweep's window, in clock ticks
NoTransaction == 0     \* ScheduledWithdrawal.transaction IS NULL
HTTP_201 == 201
HTTP_400 == 400
HTTP_404 == 404

PENDING == "pending"
PROCESSING == "processing"
COMPLETED == "completed"
FAILED == "failed"
DEPOSIT == "deposit"
WITHDRAW == "withdraw"
NoMessage == "NULL"
MsgInsufficient == "Insufficient balance at execution time"
MsgRejected == "Bank rejected the request"
MsgError == "Unexpected error - withdrawal amount refunded"

WalletIds == 1..MaxWallets
Amounts == (-1)..MaxAmount
DepositAmounts == (-1)..MaxDeposit
Times == 1..(MaxTime + 1)
Depositors == 1..NumDepositors
Sweepers == 1..NumSweepers

VARIABLES
    wallets,        \* committed Wallet rows: id -> [balance, freeze_amount]
    transactions,   \* committed Transaction rows, by id (append-only)
    withdrawals,    \* committed ScheduledWithdrawal rows, by id
    now,            \* the clock
    dep,            \* deposit requests in flight
    sw,             \* scheduler workers
    response        \* the last HTTP response of the deposit and schedule views

vars == <<wallets, transactions, withdrawals, now, dep, sw, response>>

\* ------------------------------------------------------------- data model
Wallet(balance, freeze_amount) ==
    [balance |-> balance, freeze_amount |-> freeze_amount]

available_balance(w) == wallets[w].balance - wallets[w].freeze_amount

Transaction(wallet, amount, type) ==
    [wallet |-> wallet, amount |-> amount, type |-> type]

ScheduledWithdrawal(wallet, amount, scheduled_for) ==
    [wallet |-> wallet, amount |-> amount, scheduled_for |-> scheduled_for,
     status |-> PENDING, transaction |-> NoTransaction, error_message |-> NoMessage]

NoWithdrawal ==
    [wallet |-> 0, amount |-> 0, scheduled_for |-> 0,
     status |-> PENDING, transaction |-> NoTransaction, error_message |-> NoMessage]

IdleDeposit == [pc |-> "idle", wallet |-> 0, amount |-> 0, balance |-> 0, freeze_amount |-> 0]

IdleSweep ==
    [pc |-> "idle", window |-> 0, ids |-> {}, todo |-> {}, id |-> 0,
     withdrawal |-> NoWithdrawal]

\* What a view answered: the view and the HTTP status.
Response(view, status) == [view |-> view, status |-> status]

Init ==
    /\ wallets = <<>>
    /\ transactions = <<>>
    /\ withdrawals = <<>>
    /\ now = 0
    /\ dep = [p \in Depositors |-> IdleDeposit]
    /\ sw = [s \in Sweepers |-> IdleSweep]
    /\ response = Response("none", 0)

\* ------------------------------------------------------------- row locks
\* Mutant: the deposit reads the wallet with a plain SELECT, taking no lock.
WalletLocked_none(w) == FALSE

\* Mutant: the debit's transaction stays open across the settlement call, so
\* the worker holds the wallet row until the completion or the refund.
WalletLocked_during_settlement(w) ==
    \/ \E p \in Depositors : dep[p].pc # "idle" /\ dep[p].wallet = w
    \/ \E s \in Sweepers : sw[s].pc = "settling" /\ sw[s].withdrawal.wallet = w

\* The wallet row is locked by the deposit that selected it FOR UPDATE, until
\* that deposit commits.
WalletLocked(w) ==
    \E p \in Depositors : dep[p].pc # "idle" /\ dep[p].wallet = w

\* The withdrawal rows a sweep's claiming transaction holds locked.
LockedByOther(s, r) ==
    \E o \in Sweepers \ {s} : sw[o].pc = "claiming" /\ r \in sw[o].ids

\* ------------------------------------------------------- CreateWalletView
CreateWalletView ==
    /\ Len(wallets) < MaxWallets
    /\ wallets' = Append(wallets, Wallet(0, 0))
    /\ UNCHANGED <<transactions, withdrawals, now, dep, sw, response>>

\* ------------------------------------------------------------------ clock
Tick ==
    /\ now < MaxTime
    /\ now' = now + 1
    /\ UNCHANGED <<wallets, transactions, withdrawals, dep, sw, response>>

\* ------------------------------------------------------ deposit_to_wallet
\* Mutant: only negative amounts are refused.
DepositAmountInvalid_negative(amount) == amount < 0

DepositAmountInvalid(amount) == amount <= 0

\* The call: validation, then SELECT ... FOR UPDATE of the wallet row, which
\* waits while another deposit holds the row.
deposit_to_wallet(p, wallet_uuid, amount) ==
    /\ dep[p].pc = "idle"
    /\ IF DepositAmountInvalid(amount)
       THEN UNCHANGED <<wallets, dep>>
       ELSE IF wallet_uuid \notin DOMAIN wallets
       THEN UNCHANGED <<wallets, dep>>
       ELSE /\ ~WalletLocked(wallet_uuid)
            /\ wallets[wallet_uuid].balance + amount <= MaxBalance
            /\ Len(transactions) < MaxTransactions
            /\ dep' = [dep EXCEPT ![p] =
                 [pc |-> "locked", wallet |-> wallet_uuid, amount |-> amount,
                  balance |-> wallets[wallet_uuid].balance,
                  freeze_amount |-> wallets[wallet_uuid].freeze_amount]]
            /\ UNCHANGED wallets
    /\ UNCHANGED <<transactions, withdrawals, now, sw>>

\* Mutant: no atomic block; the saved balance is committed on its own and the
\* Transaction is created afterwards.
deposit_commit_not_atomic(p) ==
    \/ /\ dep[p].pc = "locked"
       /\ wallets' = [wallets EXCEPT ![dep[p].wallet] =
                        Wallet(dep[p].balance + dep[p].amount, dep[p].freeze_amount)]
       /\ dep' = [dep EXCEPT ![p].pc = "saved"]
       /\ UNCHANGED <<transactions, withdrawals, now, sw>>
    \/ /\ dep[p].pc = "saved"
       /\ transactions' = Append(transactions,
                                 Transaction(dep[p].wallet, dep[p].amount, DEPOSIT))
       /\ dep' = [dep EXCEPT ![p] = IdleDeposit]
       /\ UNCHANGED <<wallets, withdrawals, now, sw>>

\* Mutant: the balance is saved and no Transaction is created.
deposit_commit_no_transaction(p) ==
    /\ dep[p].pc = "locked"
    /\ wallets' = [wallets EXCEPT ![dep[p].wallet] =
                     Wallet(dep[p].balance + dep[p].amount, dep[p].freeze_amount)]
    /\ dep' = [dep EXCEPT ![p] = IdleDeposit]
    /\ UNCHANGED <<transactions, withdrawals, now, sw>>

\* wallet.balance += amount; wallet.save(); Transaction.objects.create(...);
\* return: the store transaction commits the wallet row, written from the copy
\* read under the lock, and the new Transaction together, and releases the lock.
deposit_commit(p) ==
    /\ dep[p].pc = "locked"
    /\ wallets' = [wallets EXCEPT ![dep[p].wallet] =
                     Wallet(dep[p].balance + dep[p].amount, dep[p].freeze_amount)]
    /\ transactions' = Append(transactions,
                              Transaction(dep[p].wallet, dep[p].amount, DEPOSIT))
    /\ dep' = [dep EXCEPT ![p] = IdleDeposit]
    /\ UNCHANGED <<withdrawals, now, sw>>

\* ------------------------------------------------ create_withdraw_request
WithdrawAmountInvalid(amount) == amount <= 0

\* Mutant: a scheduled_for equal to the current time is let through.
NotInFuture_past(scheduled_for) == scheduled_for < now

\* scheduled_for <= timezone.now()
NotInFuture(scheduled_for) == scheduled_for <= now

\* Mutant: the amount is reserved on the wallet when the request is recorded.
create_withdraw_request_freeze(wallet_uuid, amount, scheduled_for) ==
    /\ IF WithdrawAmountInvalid(amount) \/ NotInFuture(scheduled_for)
       THEN UNCHANGED <<wallets, withdrawals>>
       ELSE IF wallet_uuid \notin DOMAIN wallets
       THEN UNCHANGED <<wallets, withdrawals>>
       ELSE /\ Len(withdrawals) < MaxWithdrawals
            /\ withdrawals' = Append(withdrawals,
                                ScheduledWithdrawal(wallet_uuid, amount, scheduled_for))
            /\ wallets' = [wallets EXCEPT ![wallet_uuid].freeze_amount =
                             wallets[wallet_uuid].freeze_amount + amount]
    /\ UNCHANGED <<transactions, now, dep, sw>>

\* The validation, the lookup of the wallet (no lock, no look at its balance)
\* and the new pending row.
create_withdraw_request(wallet_uuid, amount, scheduled_for) ==
    /\ IF WithdrawAmountInvalid(amount) \/ NotInFuture(scheduled_for)
       THEN UNCHANGED withdrawals
       ELSE IF wallet_uuid \notin DOMAIN wallets
       THEN UNCHANGED withdrawals
       ELSE /\ Len(withdrawals) < MaxWithdrawals
            /\ withdrawals' = Append(withdrawals,
                                ScheduledWithdrawal(wallet_uuid, amount, scheduled_for))
    /\ UNCHANGED <<wallets, transactions, now, dep, sw>>

\* ------------------------------------------ process_scheduled_withdrawals
current_minute_start(t) == t - (t % TicksPerMinute)

\* Mutant: no lower bound; everything scheduled up to the end of the window
\* is due.
InWindow_overdue(scheduled_for, start) ==
    scheduled_for <= start + TicksPerMinute

\* scheduled_for__gte=current_minute_start, scheduled_for__lte=next_minute_start
InWindow(scheduled_for, start) ==
    /\ scheduled_for >= start
    /\ scheduled_for <= start + TicksPerMinute

\* The filter of the due_withdrawals queryset, on the committed row.
Due(r, start) ==
    /\ withdrawals[r].status = PENDING
    /\ InWindow(withdrawals[r].scheduled_for, start)

\* Mutant: a plain SELECT, which neither skips nor locks the rows another
\* sweep holds.
SelectSkipLocked_all(s, start) ==
    {r \in DOMAIN withdrawals : Due(r, start)}

\* The rows SELECT ... FOR UPDATE SKIP LOCKED returns, and locks.
SelectSkipLocked(s, start) ==
    {r \in DOMAIN withdrawals : Due(r, start) /\ ~LockedByOther(s, r)}

\* The task up to the id list: no due row, and it returns; otherwise the
\* claiming transaction stays open, holding the selected rows.
process_scheduled_withdrawals(s) ==
    /\ sw[s].pc = "idle"
    /\ LET start == current_minute_start(now)
           withdrawal_ids == SelectSkipLocked(s, start)
       IN  IF withdrawal_ids = {}
           THEN UNCHANGED sw
           ELSE sw' = [sw EXCEPT ![s] =
                         [IdleSweep EXCEPT !.pc = "claiming", !.window = start,
                                           !.ids = withdrawal_ids]]
    /\ UNCHANGED <<wallets, transactions, withdrawals, now, dep, response>>

\* due_withdrawals.update(status=PROCESSING) and the end of the atomic block.
\* The UPDATE carries the filter of the queryset and no SKIP LOCKED: it
\* waits while another sweep holds a row the filter matches, and updates every
\* row the filter matches when it runs.  The commit releases the locks.
\* (The statement is taken at the moment it can run to its end; rows created
\* while it waits are seen by it here, and are not by the store.)
claim_update(s) ==
    /\ sw[s].pc = "claiming"
    /\ \A r \in DOMAIN withdrawals : Due(r, sw[s].window) => ~LockedByOther(s, r)
    /\ withdrawals' = [r \in DOMAIN withdrawals |->
                         IF Due(r, sw[s].window)
                         THEN [withdrawals[r] EXCEPT !.status = PROCESSING]
                         ELSE withdrawals[r]]
    /\ sw' = [sw EXCEPT ![s].pc = "run", ![s].todo = sw[s].ids]
    /\ UNCHANGED <<wallets, transactions, now, dep, response>>

\* The sweep s waits for a row the sweep o holds.
WaitsFor(s, o) ==
    /\ s # o
    /\ sw[s].pc = "claiming"
    /\ sw[o].pc = "claiming"
    /\ \E r \in sw[o].ids : Due(r, sw[s].window)

RECURSIVE WaitClosure(_)
WaitClosure(S) ==
    LET N == S \cup {o \in Sweepers : \E x \in S : WaitsFor(x, o)}
    IN  IF N = S THEN S ELSE WaitClosure(N)

Deadlocked(s) ==
    \E o \in Sweepers : WaitsFor(s, o) /\ s \in WaitClosure({o})

\* Sweeps that wait for each other's rows: the store detects the deadlock and
\* aborts one of them; its UPDATE raises, the atomic block rolls back and
\* releases its locks, and the task ends without processing anything.
deadlock_abort(s) ==
    /\ Deadlocked(s)
    /\ sw' = [sw EXCEPT ![s] = IdleSweep]
    /\ UNCHANGED <<wallets, transactions, withdrawals, now, dep, response>>

\* -------------------------------------------- process_single_withdrawal
\* The worker after process_single_withdrawal returned: the next id of the
\* list, or the end of the task.
Returned(rec) ==
    IF rec.todo = {}
    THEN IdleSweep
    ELSE [rec EXCEPT !.pc = "run", !.id = 0, !.withdrawal = NoWithdrawal]

\* Mutant: the debit without its balance condition.
BalanceCovers_unconditional(w, amount) == TRUE

\* The filter of the conditional UPDATE of the wallet row.
BalanceCovers(w, amount) == wallets[w].balance >= amount

\* Mutant: the insufficient-balance branch saves the failed withdrawal and
\* does not return: the settlement call follows.
process_single_withdrawal_no_return(s, withdrawal_id) ==
    /\ sw[s].pc = "run"
    /\ withdrawal_id \in sw[s].todo
    /\ LET rec == [sw[s] EXCEPT !.todo = sw[s].todo \ {withdrawal_id}]
           withdrawal == withdrawals[withdrawal_id]
           w == withdrawal.wallet
       IN  IF withdrawal_id \notin DOMAIN withdrawals \/ withdrawal.status # PROCESSING
           THEN /\ sw' = [sw EXCEPT ![s] = Returned(rec)]
                /\ UNCHANGED <<wallets, withdrawals>>
           ELSE IF BalanceCovers(w, withdrawal.amount)
           THEN /\ ~WalletLocked(w)
                /\ wallets' = [wallets EXCEPT
                                 ![w].balance = wallets[w].balance - withdrawal.amount]
                /\ sw' = [sw EXCEPT ![s] =
                            [rec EXCEPT !.pc = "settling", !.id = withdrawal_id,
                                        !.withdrawal = withdrawal]]
                /\ UNCHANGED withdrawals
           ELSE /\ withdrawals' = [withdrawals EXCEPT ![withdrawal_id] =
                                     [withdrawal EXCEPT !.status = FAILED,
                                                        !.error_message = MsgInsufficient]]
                /\ sw' = [sw EXCEPT ![s] =
                            [rec EXCEPT !.pc = "settling", !.id = withdrawal_id,
                                        !.withdrawal = withdrawal]]
                /\ UNCHANGED wallets
    /\ UNCHANGED <<transactions, now, dep, response>>

\* for wid in withdrawal_ids: process_single_withdrawal(wid), up to the end of
\* its first atomic block.  The row is fetched, required to exist and to be
\* processing; otherwise the function returns.
\* The debit is UPDATE wallet SET balance = balance - amount WHERE balance >=
\* amount; a row that passes the filter and is locked by a deposit makes the
\* statement wait.  No row updated: the withdrawal is saved as failed.
process_single_withdrawal(s, withdrawal_id) ==
    /\ sw[s].pc = "run"
    /\ withdrawal_id \in sw[s].todo
    /\ LET rec == [sw[s] EXCEPT !.todo = sw[s].todo \ {withdrawal_id}]
           withdrawal == withdrawals[withdrawal_id]
           w == withdrawal.wallet
       IN  IF withdrawal_id \notin DOMAIN withdrawals \/ withdrawal.status # PROCESSING
           THEN /\ sw' = [sw EXCEPT ![s] = Returned(rec)]
                /\ UNCHANGED <<wallets, withdrawals>>
           ELSE IF BalanceCovers(w, withdrawal.amount)
           THEN /\ ~WalletLocked(w)
                /\ wallets' = [wallets EXCEPT
                                 ![w].balance = wallets[w].balance - withdrawal.amount]
                /\ sw' = [sw EXCEPT ![s] =
                            [rec EXCEPT !.pc = "settling", !.id = withdrawal_id,
                                        !.withdrawal = withdrawal]]
                /\ UNCHANGED withdrawals
           ELSE /\ withdrawals' = [withdrawals EXCEPT ![withdrawal_id] =
                                     [withdrawal EXCEPT !.status = FAILED,
                                                        !.error_message = MsgInsufficient]]
                /\ sw' = [sw EXCEPT ![s] = Returned(rec)]
                /\ UNCHANGED wallets
    /\ UNCHANGED <<transactions, now, dep, response>>

\* Mutant: the Transaction is created and not linked to the withdrawal.
complete_unlinked(s) ==
    /\ sw[s].pc = "settling"
    /\ transactions' = Append(transactions,
                          Transaction(sw[s].withdrawal.wallet, sw[s].withdrawal.amount, WITHDRAW))
    /\ withdrawals' = [withdrawals EXCEPT ![sw[s].id] =
                         [sw[s].withdrawal EXCEPT !.status = COMPLETED]]
    /\ sw' = [sw EXCEPT ![s] = Returned(sw[s])]
    /\ UNCHANGED <<wallets, now, dep, response>>

\* request_third_party_deposit() answered success: the withdraw Transaction
\* and the completed withdrawal, in one store transaction.
complete(s) ==
    /\ sw[s].pc = "settling"
    /\ LET withdrawal == sw[s].withdrawal
       IN  /\ transactions' = Append(transactions,
                                Transaction(withdrawal.wallet, withdrawal.amount, WITHDRAW))
           /\ withdrawals' = [withdrawals EXCEPT ![sw[s].id] =
                                [withdrawal EXCEPT !.status = COMPLETED,
                                                   !.transaction = Len(transactions) + 1]]
    /\ sw' = [sw EXCEPT ![s] = Returned(sw[s])]
    /\ UNCHANGED <<wallets, now, dep, response>>

\* Mutant: the refund also records a withdraw Transaction and links it.
refund_with_transaction(s, error_message) ==
    /\ sw[s].pc = "settling"
    /\ ~WalletLocked(sw[s].withdrawal.wallet)
    /\ wallets' = [wallets EXCEPT ![sw[s].withdrawal.wallet].balance =
                      wallets[sw[s].withdrawal.wallet].balance + sw[s].withdrawal.amount]
    /\ transactions' = Append(transactions,
                          Transaction(sw[s].withdrawal.wallet, sw[s].withdrawal.amount, WITHDRAW))
    /\ withdrawals' = [withdrawals EXCEPT ![sw[s].id] =
                         [sw[s].withdrawal EXCEPT !.status = FAILED,
                                                  !.transaction = Len(transactions) + 1,
                                                  !.error_message = error_message]]
    /\ sw' = [sw EXCEPT ![s] = Returned(sw[s])]
    /\ UNCHANGED <<now, dep, response>>

\* Mutant: the failed withdrawal is put back to pending, to be retried.
refund_retry(s, error_message) ==
    /\ sw[s].pc = "settling"
    /\ ~WalletLocked(sw[s].withdrawal.wallet)
    /\ wallets' = [wallets EXCEPT ![sw[s].withdrawal.wallet].balance =
                      wallets[sw[s].withdrawal.wallet].balance + sw[s].withdrawal.amount]
    /\ withdrawals' = [withdrawals EXCEPT ![sw[s].id] =
                         [sw[s].withdrawal EXCEPT !.status = PENDING,
                                                  !.error_message = error_message]]
    /\ sw' = [sw EXCEPT ![s] = Returned(sw[s])]
    /\ UNCHANGED <<transactions, now, dep, response>>

\* Mutant: the failed withdrawal is saved and the wallet is not credited back.
refund_no_credit(s, error_message) ==
    /\ sw[s].pc = "settling"
    /\ withdrawals' = [withdrawals EXCEPT ![sw[s].id] =
                         [sw[s].withdrawal EXCEPT !.status = FAILED,
                                                  !.error_message = error_message]]
    /\ sw' = [sw EXCEPT ![s] = Returned(sw[s])]
    /\ UNCHANGED <<wallets, transactions, now, dep, response>>

\* Mutant: the error of the settlement call is not caught; it leaves
\* process_single_withdrawal and the loop, and the task ends.
refund_raises(s, error_message) ==
    /\ sw[s].pc = "settling"
    /\ sw' = [sw EXCEPT ![s] = IdleSweep]
    /\ UNCHANGED <<wallets, transactions, withdrawals, now, dep, response>>

\* request_third_party_deposit() answered something else, or raised: the
\* refund of the wallet (which waits for a deposit holding the row) and the
\* failed withdrawal, in one store transaction.
refund(s, error_message) ==
    /\ sw[s].pc = "settling"
    /\ LET withdrawal == sw[s].withdrawal
           w == withdrawal.wallet
       IN  /\ ~WalletLocked(w)
           /\ wallets' = [wallets EXCEPT
                            ![w].balance = wallets[w].balance + withdrawal.amount]
           /\ withdrawals' = [withdrawals EXCEPT ![sw[s].id] =
                                [withdrawal EXCEPT !.status = FAILED,
                                                   !.error_message = error_message]]
    /\ sw' = [sw EXCEPT ![s] = Returned(sw[s])]
    /\ UNCHANGED <<transactions, now, dep, response>>

\* ------------------------------------------------------------ the views
\* CreateDepositView.post: the call of deposit_to_wallet; ValueError is
\* answered 400 and Wallet.DoesNotExist 404.
CreateDepositView(p, wallet_uuid, amount) ==
    /\ deposit_to_wallet(p, wallet_uuid, amount)
    /\ response' = IF DepositAmountInvalid(amount)
                   THEN Response("deposit", HTTP_400)
                   ELSE IF wallet_uuid \notin DOMAIN wallets
                   THEN Response("deposit", HTTP_404)
                   ELSE response

\* CreateDepositView.post after deposit_to_wallet returned: 201.
CreateDepositViewReturn(p) ==
    /\ deposit_commit(p)
    /\ response' = Response("deposit", HTTP_201)

\* ScheduleWithdrawView.post, through schedule_withdrawal_service: the same
\* answers for create_withdraw_request.
ScheduleWithdrawView(wallet_uuid, amount, scheduled_for) ==
    /\ create_withdraw_request(wallet_uuid, amount, scheduled_for)
    /\ response' = IF WithdrawAmountInvalid(amount) \/ NotInFuture(scheduled_for)
                   THEN Response("withdraw", HTTP_400)
                   ELSE IF wallet_uuid \notin DOMAIN wallets
                   THEN Response("withdraw", HTTP_404)
                   ELSE Response("withdraw", HTTP_201)

\* ------------------------------------------------------------ the system
\* The services called directly: nothing is answered over HTTP.
deposit_call(p, wallet_uuid, amount) ==
    deposit_to_wallet(p, wallet_uuid, amount) /\ UNCHANGED response

deposit_return(p) ==
    deposit_commit(p) /\ UNCHANGED response

withdraw_request_call(wallet_uuid, amount, scheduled_for) ==
    create_withdraw_request(wallet_uuid, amount, scheduled_for) /\ UNCHANGED response

Next ==
    \/ CreateWalletView
    \/ Tick
    \/ \E p \in Depositors, w \in WalletIds, a \in DepositAmounts : deposit_call(p, w, a)
    \/ \E p \in Depositors : deposit_return(p)
    \/ \E w \in WalletIds, a \in Amounts, t \in Times : withdraw_request_call(w, a, t)
    \/ \E s \in Sweepers : process_scheduled_withdrawals(s)
    \/ \E s \in Sweepers : claim_update(s)
    \/ \E s \in Sweepers : deadlock_abort(s)
    \/ \E s \in Sweepers, r \in 1..MaxWithdrawals : process_single_withdrawal(s, r)
    \/ \E s \in Sweepers : complete(s)
    \/ \E s \in Sweepers, m \in {MsgRejected, MsgError} : refund(s, m)

Spec == Init /\ [][Next]_vars

\* The same system with the deposits made through CreateDepositView.
NextDepositView ==
    \/ CreateWalletView
    \/ Tick
    \/ \E p \in Depositors, w \in WalletIds, a \in DepositAmounts :
          CreateDepositView(p, w, a)
    \/ \E p \in Depositors : CreateDepositViewReturn(p)
    \/ \E w \in WalletIds, a \in Amounts, t \in Times : withdraw_request_call(w, a, t)
    \/ \E s \in Sweepers : process_scheduled_withdrawals(s)
    \/ \E s \in Sweepers : claim_update(s)
    \/ \E s \in Sweepers : deadlock_abort(s)
    \/ \E s \in Sweepers, r \in 1..MaxWithdrawals : process_single_withdrawal(s, r)
    \/ \E s \in Sweepers : complete(s)
    \/ \E s \in Sweepers, m \in {MsgRejected, MsgError} : refund(s, m)

SpecDepositView == Init /\ [][NextDepositView]_vars

\* The same system with the withdrawals scheduled through ScheduleWithdrawView.
NextScheduleView ==
    \/ CreateWalletView
    \/ Tick
    \/ \E p \in Depositors, w \in WalletIds, a \in DepositAmounts : deposit_call(p, w, a)
    \/ \E p \in Depositors : deposit_return(p)
    \/ \E w \in WalletIds, a \in Amounts, t \in Times : ScheduleWithdrawView(w, a, t)
    \/ \E s \in Sweepers : process_scheduled_withdrawals(s)
    \/ \E s \in Sweepers : claim_update(s)
    \/ \E s \in Sweepers : deadlock_abort(s)
    \/ \E s \in Sweepers, r \in 1..MaxWithdrawals : process_single_withdrawal(s, r)
    \/ \E s \in Sweepers : complete(s)
    \/ \E s \in Sweepers, m \in {MsgRejected, MsgError} : refund(s, m)

SpecScheduleView == Init /\ [][NextScheduleView]_vars

\* --------------------------------------------------- direct calls
\* process_single_withdrawal called with any id by a caller other than the
\* loop of the sweep: a worker that is not running a sweep executes it.
process_single_withdrawal_call(s, withdrawal_id) ==
    /\ sw[s].pc = "idle"
    /\ sw' = [sw EXCEPT ![s] = [IdleSweep EXCEPT !.pc = "run", !.todo = {withdrawal_id}]]
    /\ UNCHANGED <<wallets, transactions, withdrawals, now, dep, response>>

NextDirectCall ==
    \/ CreateWalletView
    \/ \E p \in Depositors, w \in WalletIds, a \in DepositAmounts : deposit_call(p, w, a)
    \/ \E p \in Depositors : deposit_return(p)
    \/ \E w \in WalletIds, a \in Amounts, t \in Times : withdraw_request_call(w, a, t)
    \/ \E s \in Sweepers : process_scheduled_withdrawals(s)
    \/ \E s \in Sweepers : claim_update(s)
    \/ \E s \in Sweepers : deadlock_abort(s)
    \/ \E s \in Sweepers, r \in 1..MaxWithdrawals : process_single_withdrawal_call(s, r)
    \/ \E s \in Sweepers, r \in 1..MaxWithdrawals : process_single_withdrawal(s, r)
    \/ \E s \in Sweepers : complete(s)
    \/ \E s \in Sweepers, m \in {MsgRejected, MsgError} : refund(s, m)

\* The system, within one minute of the clock, with process_single_withdrawal
\* also called directly.
SpecDirectCall == Init /\ [][NextDirectCall]_vars

\* --------------------------------------------------------------- fairness
\* A worker that has the list keeps running the loop: the fetch and the debit
\* of the next id are executed (the debit, once no deposit holds the wallet).
WorkerFairness ==
    \A s \in Sweepers :
        WF_vars(\E r \in 1..MaxWithdrawals : process_single_withdrawal(s, r))

\* The settlement call returns or raises within its timeout, and the
\* completion or the compensation follows.
SettlementFairness ==
    \A s \in Sweepers :
        WF_vars(complete(s) \/ \E m \in {MsgRejected, MsgError} : refund(s, m))

\* A deposit that holds the wallet commits.
DepositFairness ==
    \A p \in Depositors : WF_vars(deposit_return(p))

\* The system whose running tasks and requests are not suspended forever.
SpecLive == Spec /\ WorkerFairness /\ SettlementFairness /\ DepositFairness

\* ------------------------------------------------- store failures
\* A store transaction can fail (lock timeout, lost connection): its atomic
\* block rolls back what it wrote and raises.  Neither process_single_withdrawal
\* nor the loop of process_scheduled_withdrawals catches the exception, so it
\* ends the task: the ids not yet processed are dropped with it.

\* The claiming transaction fails: the selected rows stay pending.
claim_fails(s) ==
    /\ sw[s].pc = "claiming"
    /\ sw' = [sw EXCEPT ![s] = IdleSweep]
    /\ UNCHANGED <<wallets, transactions, withdrawals, now, dep, response>>

\* The debit transaction of a processing withdrawal fails: nothing is debited
\* and the withdrawal stays processing.
debit_fails(s, withdrawal_id) ==
    /\ sw[s].pc = "run"
    /\ withdrawal_id \in sw[s].todo
    /\ withdrawals[withdrawal_id].status = PROCESSING
    /\ sw' = [sw EXCEPT ![s] = IdleSweep]
    /\ UNCHANGED <<wallets, transactions, withdrawals, now, dep, response>>

\* The completion or the compensation transaction fails, after the settlement
\* call: the Transaction and the completed status, or the credit and the
\* failed status, are rolled back; the debit was committed by an earlier
\* transaction and stays.
resolution_fails(s) ==
    /\ sw[s].pc = "settling"
    /\ sw' = [sw EXCEPT ![s] = IdleSweep]
    /\ UNCHANGED <<wallets, transactions, withdrawals, now, dep, response>>

NextStoreFailure ==
    \/ Next
    \/ \E s \in Sweepers : claim_fails(s)
    \/ \E s \in Sweepers, r \in 1..MaxWithdrawals : debit_fails(s, r)
    \/ \E s \in Sweepers : resolution_fails(s)

\* The system on a store whose transactions can fail.
SpecStoreFailure == Init /\ [][NextStoreFailure]_vars

\* ============================================================ properties
RECURSIVE SumOver(_, _)
SumOver(f, S) ==
    IF S = {} THEN 0
    ELSE LET x == CHOOSE y \in S : TRUE IN f[x] + SumOver(f, S \ {x})

WithdrawalIds == DOMAIN withdrawals
TransactionIds == DOMAIN transactions

\* The sum of all wallet balances.
TotalBalance == SumOver([w \in DOMAIN wallets |-> wallets[w].balance], DOMAIN wallets)

\* The sum of the amounts of the deposit Transactions (of wallet w).
DepositIds(w) ==
    {t \in TransactionIds : transactions[t].type = DEPOSIT /\ transactions[t].wallet = w}
Deposited(w) == SumOver([t \in TransactionIds |-> transactions[t].amount], DepositIds(w))
TotalDeposited == SumOver([w \in DOMAIN wallets |-> Deposited(w)], DOMAIN wallets)

\* The sum of the amounts of the completed withdrawals (of wallet w).
CompletedIds(w) ==
    {r \in WithdrawalIds : withdrawals[r].status = COMPLETED /\ withdrawals[r].wallet = w}
Completed(w) == SumOver([r \in WithdrawalIds |-> withdrawals[r].amount], CompletedIds(w))
TotalCompleted == SumOver([w \in DOMAIN wallets |-> Completed(w)], DOMAIN wallets)

\* The amounts debited from wallet w for withdrawals whose settlement is in flight.
Settling(w) == {s \in Sweepers : sw[s].pc = "settling" /\ sw[s].withdrawal.wallet = w}
InFlight(w) == SumOver([s \in Sweepers |-> sw[s].withdrawal.amount], Settling(w))

\* No deposit, sweep or process_single_withdrawal is in flight.
Quiescent ==
    /\ \A p \in Depositors : dep[p].pc = "idle"
    /\ \A s \in Sweepers : sw[s].pc = "idle"

\* C1: at any quiescent point the sum of all wallet balances equals the
\* initial balances (zero: wallets are created empty) plus the sum of the
\* amounts of all deposit Transactions minus the sum of the amounts of all
\* completed withdrawals.
C1_Conservation ==
    Quiescent => TotalBalance = TotalDeposited - TotalCompleted

\* C1 witness: a quiescent state after a deposit, a completed withdrawal and a
\* withdrawal that failed at settlement and was refunded.
C1_Witness ==
    /\ Quiescent
    /\ TotalDeposited > 0
    /\ \E r \in WithdrawalIds : withdrawals[r].status = COMPLETED
    /\ \E r \in WithdrawalIds :
          withdrawals[r].status = FAILED /\ withdrawals[r].error_message = MsgError

\* C2: every wallet's balance is >= 0 in every reachable state.
C2_BalanceNonNegative ==
    \A w \in DOMAIN wallets : wallets[w].balance >= 0

\* C2 witness: two workers have debited the same wallet down to zero and both
\* settlements are in flight.
C2_Witness ==
    \E w \in DOMAIN wallets :
        /\ wallets[w].balance = 0
        /\ Cardinality(Settling(w)) >= 2

\* The id list a sweep collected, for as long as the task runs.
withdrawal_ids(s) == sw[s].ids

\* C3: the id lists of concurrent sweeps are pairwise disjoint; a sweep
\* collects only rows that are pending and in no other sweep's list, a row
\* that left pending is never pending (hence never collected) again, and a
\* withdrawal that is completed or failed is in no worker's hands: no
\* withdrawal is debited or settled twice.
C3_DisjointClaims ==
    /\ [](\A s1, s2 \in Sweepers :
            s1 # s2 => withdrawal_ids(s1) \cap withdrawal_ids(s2) = {})
    /\ [](\A r \in WithdrawalIds :
            withdrawals[r].status \in {COMPLETED, FAILED}
                => \A s \in Sweepers : r \notin sw[s].todo /\ sw[s].id # r)
    /\ [][\A s \in Sweepers :
            (withdrawal_ids(s)' # withdrawal_ids(s) /\ withdrawal_ids(s)' # {})
                => \A r \in withdrawal_ids(s)' :
                      /\ withdrawals[r].status = PENDING
                      /\ \A o \in Sweepers \ {s} : r \notin withdrawal_ids(o)]_vars
    /\ [][\A r \in WithdrawalIds :
            withdrawals[r].status # PENDING => withdrawals'[r].status # PENDING]_vars

\* C3 witness: two sweeps overlap, each with its own non-empty id list, one
\* still inside its claiming transaction and one already executing.
C3_Witness ==
    \E s1, s2 \in Sweepers :
        /\ sw[s1].pc = "claiming"
        /\ sw[s2].pc \in {"run", "settling"}
        /\ withdrawal_ids(s1) # {}
        /\ withdrawal_ids(s2) # {}
        /\ sw[s1].window = sw[s2].window

\* C4: each completed withdrawal is linked to one Transaction of type
\* withdraw on its own wallet with its own amount, no two withdrawals share a
\* Transaction, there are as many withdraw Transactions as completed
\* withdrawals, and the amount stays deducted: every wallet's balance is what
\* was deposited minus the completed withdrawals and the debits in flight.
C4_CompletedLinked ==
    /\ \A r \in WithdrawalIds :
          withdrawals[r].status = COMPLETED =>
              /\ withdrawals[r].transaction \in TransactionIds
              /\ transactions[withdrawals[r].transaction] =
                     Transaction(withdrawals[r].wallet, withdrawals[r].amount, WITHDRAW)
              /\ \A q \in WithdrawalIds \ {r} :
                     withdrawals[q].transaction # withdrawals[r].transaction
    /\ Cardinality({t \in TransactionIds : transactions[t].type = WITHDRAW})
          = Cardinality({r \in WithdrawalIds : withdrawals[r].status = COMPLETED})
    /\ \A w \in DOMAIN wallets :
          wallets[w].balance = Deposited(w) - Completed(w) - InFlight(w)

\* C4 witness: two completed withdrawals of the same wallet.
C4_Witness ==
    \E r, q \in WithdrawalIds :
        /\ r # q
        /\ withdrawals[r].status = COMPLETED
        /\ withdrawals[q].status = COMPLETED
        /\ withdrawals[r].wallet = withdrawals[q].wallet

\* A worker's step that ends the settlement of withdrawal r as failed.
SettlementFailedStep(s, r) ==
    /\ sw[s].pc = "settling"
    /\ sw[s].id = r
    /\ withdrawals'[r].status = FAILED

\* A worker's step that debits the wallet for withdrawal r.
DebitStep(s, r) ==
    /\ sw[s].pc = "run"
    /\ sw'[s].pc = "settling"
    /\ sw'[s].id = r

\* C5: a settlement that did not succeed credits the wallet back by exactly
\* the amount the debit took (the withdrawal's amount), leaves every other
\* wallet and the ledger alone and saves the withdrawal as failed with the
\* rejection or error message; every settlement ends completed or failed.
C5_RefundOnFailure ==
    [][\A s \in Sweepers, r \in WithdrawalIds :
          LET w == withdrawals[r].wallet
              amount == withdrawals[r].amount
          IN  /\ DebitStep(s, r) =>
                    wallets' = [wallets EXCEPT ![w].balance = wallets[w].balance - amount]
              /\ SettlementFailedStep(s, r) =>
                    /\ wallets' = [wallets EXCEPT ![w].balance = wallets[w].balance + amount]
                    /\ withdrawals'[r].error_message \in {MsgRejected, MsgError}
                    /\ transactions' = transactions
              /\ (sw[s].pc = "settling" /\ sw[s].id = r /\ sw'[s].pc # "settling") =>
                    withdrawals'[r].status \in {COMPLETED, FAILED}]_vars

\* C5 witness: a withdrawal of 2 failed at settlement and its wallet holds the
\* 2 again.
C5_Witness ==
    \E r \in WithdrawalIds :
        /\ withdrawals[r].status = FAILED
        /\ withdrawals[r].error_message = MsgRejected
        /\ withdrawals[r].amount = 2
        /\ wallets[withdrawals[r].wallet].balance = 2
        /\ Quiescent

\* C6: a failed withdrawal has no linked Transaction, whatever made it fail;
\* a withdrawal with a linked Transaction is completed; every withdraw
\* Transaction is the one a completed withdrawal links (none was created for
\* a withdrawal that failed); the step that fails a withdrawal creates none.
C6_FailedHasNoTransaction ==
    /\ [](\A r \in WithdrawalIds :
            /\ withdrawals[r].status = FAILED => withdrawals[r].transaction = NoTransaction
            /\ withdrawals[r].transaction # NoTransaction => withdrawals[r].status = COMPLETED)
    /\ [](\A t \in TransactionIds :
            transactions[t].type = WITHDRAW =>
                \E r \in WithdrawalIds :
                    withdrawals[r].status = COMPLETED /\ withdrawals[r].transaction = t)
    /\ [][\A r \in WithdrawalIds :
            (withdrawals[r].status # FAILED /\ withdrawals'[r].status = FAILED)
                => transactions' = transactions]_vars

\* C6 witness: one withdrawal failed for insufficient balance and another
\* failed at settlement.
C6_Witness ==
    \E r, q \in WithdrawalIds :
        /\ withdrawals[r].status = FAILED
        /\ withdrawals[r].error_message = MsgInsufficient
        /\ withdrawals[q].status = FAILED
        /\ withdrawals[q].error_message \in {MsgRejected, MsgError}

\* C7: process_single_withdrawal on a processing withdrawal whose wallet
\* holds less than the amount saves it as failed with the insufficient-balance
\* message, changes no wallet and no Transaction, and does not go on to the
\* settlement call.
C7_InsufficientBalance ==
    [][\A s \in Sweepers, r \in WithdrawalIds :
          ( /\ sw[s].pc = "run"
            /\ r \in sw[s].todo
            /\ r \notin sw'[s].todo
            /\ withdrawals[r].status = PROCESSING
            /\ wallets[withdrawals[r].wallet].balance < withdrawals[r].amount )
          => /\ withdrawals' = [withdrawals EXCEPT ![r].status = FAILED,
                                                   ![r].error_message = MsgInsufficient]
             /\ wallets' = wallets
             /\ transactions' = transactions
             /\ sw'[s].pc # "settling"
             /\ sw'[s].id # r]_vars

\* C7 witness: a withdrawal of 2 failed for insufficient balance on a wallet
\* that holds 1.
C7_Witness ==
    \E r \in WithdrawalIds :
        /\ withdrawals[r].status = FAILED
        /\ withdrawals[r].error_message = MsgInsufficient
        /\ withdrawals[r].amount = 2
        /\ wallets[withdrawals[r].wallet].balance = 1

\* C8: a withdrawal is created pending; its status changes only from pending
\* to processing, in the step that commits a sweep's claim, and from
\* processing to completed or failed; completed and failed never change.
C8_StatusMachine ==
    [][\A r \in DOMAIN withdrawals' :
          IF r \notin WithdrawalIds
          THEN withdrawals'[r].status = PENDING
          ELSE \/ withdrawals'[r].status = withdrawals[r].status
               \/ /\ withdrawals[r].status = PENDING
                  /\ withdrawals'[r].status = PROCESSING
                  /\ \E s \in Sweepers : sw[s].pc = "claiming" /\ sw'[s].pc = "run"
               \/ /\ withdrawals[r].status = PROCESSING
                  /\ withdrawals'[r].status \in {COMPLETED, FAILED}]_vars

\* C8 witness: one withdrawal is completed while another, claimed by a second
\* sweep, is processing.
C8_Witness ==
    \E r, q \in WithdrawalIds :
        /\ withdrawals[r].status = COMPLETED
        /\ withdrawals[q].status = PROCESSING
        /\ \E s \in Sweepers : q \in sw[s].todo

\* C9: a deposit with amount <= 0 is answered with the validation error and
\* mutates nothing, whether the wallet id exists or not: no wallet, no
\* Transaction, no withdrawal changes and no store transaction stays open.
C9_DepositRejected ==
    [][\A p \in Depositors, w \in WalletIds, a \in DepositAmounts :
          (a <= 0 /\ CreateDepositView(p, w, a))
              => /\ response' = Response("deposit", HTTP_400)
                 /\ UNCHANGED <<wallets, transactions, withdrawals, dep, sw>>]_vars

\* C9 witness: a deposit was answered 400 when one wallet holds money and
\* another wallet id does not exist yet.
C9_Witness ==
    /\ response = Response("deposit", HTTP_400)
    /\ Len(wallets) < MaxWallets
    /\ \E w \in DOMAIN wallets : wallets[w].balance > 0
    /\ transactions # <<>>

\* C10: a deposit with amount > 0 on an existing wallet changes nothing that
\* is committed until it returns, and then, in one step, raises that wallet's
\* balance by the amount and appends one deposit Transaction of that amount
\* for that wallet, leaving the other wallets, the earlier Transactions, the
\* withdrawals and the workers as they were.  No step shows one effect
\* without the other: a balance rises only by a refund or together with its
\* deposit Transaction, and a deposit Transaction appears only together with
\* the rise of the balance.
C10_DepositAtomic ==
    [][/\ \A p \in Depositors :
             /\ (dep[p].pc = "idle" /\ dep'[p].pc = "locked") =>
                    /\ dep'[p].amount > 0
                    /\ dep'[p].wallet \in DOMAIN wallets
                    /\ UNCHANGED <<wallets, transactions, withdrawals>>
             /\ (dep[p].pc = "locked" /\ dep'[p].pc = "idle") =>
                    /\ wallets' = [wallets EXCEPT ![dep[p].wallet].balance =
                                     wallets[dep[p].wallet].balance + dep[p].amount]
                    /\ transactions' = Append(transactions,
                                          Transaction(dep[p].wallet, dep[p].amount, DEPOSIT))
                    /\ UNCHANGED <<withdrawals, sw>>
       /\ \A w \in DOMAIN wallets :
             wallets'[w].balance > wallets[w].balance =>
                 \/ \E s \in Sweepers :
                       /\ SettlementFailedStep(s, sw[s].id)
                       /\ sw[s].withdrawal.wallet = w
                 \/ transactions' = Append(transactions,
                       Transaction(w, wallets'[w].balance - wallets[w].balance, DEPOSIT))
       /\ (/\ Len(transactions') > Len(transactions)
           /\ transactions'[Len(transactions')].type = DEPOSIT) =>
             LET txn == transactions'[Len(transactions')]
             IN  wallets'[txn.wallet].balance = wallets[txn.wallet].balance + txn.amount
      ]_vars

\* C10 witness: a deposit to wallet 2 has returned while a withdrawal of
\* wallet 1 is being settled.
C10_Witness ==
    /\ Len(wallets) = 2
    /\ Deposited(2) > 0
    /\ wallets[2].balance = Deposited(2)
    /\ \E s \in Sweepers : sw[s].pc = "settling" /\ sw[s].withdrawal.wallet = 1
    /\ \A p \in Depositors : dep[p].pc = "idle"

\* C11: create_withdraw_request with amount <= 0 or with scheduled_for not
\* strictly later than the clock at the call is answered with the validation
\* error (400), and otherwise with an unknown wallet id with the not-found
\* error (404); in each case no ScheduledWithdrawal row is created and no
\* wallet, Transaction, deposit or worker changes.
C11_WithdrawRequestRejected ==
    [][(response' # response \/ withdrawals' # withdrawals) =>
          /\ \/ /\ response' = Response("withdraw", HTTP_400)
                /\ UNCHANGED <<wallets, transactions, withdrawals, dep, sw>>
             \/ ~ \E w \in WalletIds, a \in Amounts, t \in Times :
                     (a <= 0 \/ t <= now) /\ ScheduleWithdrawView(w, a, t)
          /\ \/ /\ response' = Response("withdraw", HTTP_404)
                /\ UNCHANGED <<wallets, transactions, withdrawals, dep, sw>>
             \/ ~ \E w \in WalletIds, a \in Amounts, t \in Times :
                     /\ a > 0 /\ t > now /\ w \notin DOMAIN wallets
                     /\ ScheduleWithdrawView(w, a, t)]_vars

\* C11 witness: a request was answered 400 after the clock has advanced, with
\* a wallet that holds money and an earlier withdrawal already scheduled.
C11_Witness ==
    /\ response = Response("withdraw", HTTP_400)
    /\ now > 0
    /\ withdrawals # <<>>
    /\ \E w \in DOMAIN wallets : wallets[w].balance > 0

C13_NoPartialEffect ==
    \A w \in DOMAIN wallets :
        wallets[w].balance + InFlight(w) = Deposited(w) - Completed(w)

\* C14: once a sweep's claiming transaction has committed with a list of
\* ids, every id of the list eventually is completed or failed, whatever
\* happens to the other ids of the list (insufficient balance, settlement
\* success, rejection or error).
C14_ClaimedEventuallyResolved ==
    \A r \in 1..MaxWithdrawals :
        (\E s \in Sweepers : sw[s].pc = "run" /\ r \in sw[s].todo)
            ~> (r \in DOMAIN withdrawals /\ withdrawals[r].status \in {COMPLETED, FAILED})

\* C14 witness: a sweep claimed two withdrawals; the first one failed and the
\* worker is settling the second.
C14_Witness ==
    \E s \in Sweepers, r \in DOMAIN withdrawals :
        /\ sw[s].pc = "settling"
        /\ sw[s].id # r
        /\ sw[s].ids = {r, sw[s].id}
        /\ withdrawals[r].status = FAILED

\* C15: overlapping sweeps never wait on each other's row locks: no sweep's
\* claiming transaction has a statement that waits for a row another sweep
\* holds locked, and no two sweeps wait for each other.
C15_SweepsNeverWait ==
    \A s \in Sweepers :
        /\ \A o \in Sweepers : ~WaitsFor(s, o)
        /\ ~Deadlocked(s)

\* What the operations that commit in a step do to the balance of wallet w:
\* the amount of a deposit that returns, of a debit, of a refund.
DepositEffect(w) ==
    SumOver([p \in Depositors |->
               IF dep[p].pc = "locked" /\ dep'[p].pc = "idle" /\ dep[p].wallet = w
               THEN dep[p].amount ELSE 0], Depositors)

DebitEffect(w) ==
    SumOver([s \in Sweepers |->
               IF /\ sw[s].pc = "run" /\ sw'[s].pc = "settling"
                  /\ sw'[s].withdrawal.wallet = w
               THEN sw'[s].withdrawal.amount ELSE 0], Sweepers)

RefundEffect(w) ==
    SumOver([s \in Sweepers |->
               IF /\ sw[s].pc = "settling" /\ sw[s].withdrawal.wallet = w
                  /\ withdrawals'[sw[s].id].status = FAILED
               THEN sw[s].withdrawal.amount ELSE 0], Sweepers)

C17_NoLockDuringSettlement ==
    /\ [](\A s \in Sweepers : sw[s].pc = "settling" =>
            LET w == sw[s].withdrawal.wallet IN
            /\ \A p \in Depositors :
                  /\ ( /\ \A q \in Depositors : dep[q].pc = "idle"
                       /\ wallets[w].balance + 1 <= MaxBalance
                       /\ Len(transactions) < MaxTransactions )
                        => ENABLED deposit_call(p, w, 1)
                  /\ (dep[p].pc = "locked" /\ dep[p].wallet = w)
                        => ENABLED deposit_return(p)
            /\ \A o \in Sweepers \ {s} :
                  /\ sw[o].pc = "idle" =>
                        \A r \in DOMAIN withdrawals :
                            ( /\ Due(r, current_minute_start(now))
                              /\ \A x \in Sweepers : sw[x].pc = "claiming" => r \notin sw[x].ids )
                                => ENABLED ( /\ process_scheduled_withdrawals(o)
                                             /\ r \in sw'[o].ids )
                  /\ ( /\ sw[o].pc = "claiming"
                       /\ \A x \in Sweepers : ~WaitsFor(o, x) )
                        => ENABLED claim_update(o))
    /\ [][\A s \in Sweepers :
            /\ (sw[s].pc = "run" /\ sw'[s].pc = "settling") =>
                  /\ wallets'[sw'[s].withdrawal.wallet].balance =
                        wallets[sw'[s].withdrawal.wallet].balance - sw'[s].withdrawal.amount
                  /\ UNCHANGED <<withdrawals, transactions>>
            /\ \A r \in DOMAIN withdrawals :
                  ( /\ withdrawals'[r].status # withdrawals[r].status
                    /\ \/ withdrawals'[r].status = COMPLETED
                       \/ /\ withdrawals'[r].status = FAILED
                          /\ withdrawals'[r].error_message # MsgInsufficient )
                      => \E o \in Sweepers : sw[o].pc = "settling" /\ sw[o].id = r]_vars

\* C17 witness: during a worker's settlement a deposit has taken the same
\* wallet's row (it could not have held it when the debit ran) and the other
\* sweep is inside its claiming transaction with rows of its own.
C17_Witness ==
    \E s, o \in Sweepers, p \in Depositors :
        /\ sw[s].pc = "settling"
        /\ dep[p].pc = "locked"
        /\ dep[p].wallet = sw[s].withdrawal.wallet
        /\ sw[o].pc = "claiming"
        /\ sw[o].ids # {}

\* A step in which worker s runs process_single_withdrawal(r) and finds no
\* withdrawal r in status processing.
GuardedCallStep(s, r) ==
    /\ sw[s].pc = "run"
    /\ r \in sw[s].todo
    /\ r \notin sw'[s].todo
    /\ (r \notin DOMAIN withdrawals \/ withdrawals[r].status # PROCESSING)

\* process_single_withdrawal on an id that does not exist or is not
\* processing changes no wallet, withdrawal or Transaction and does not reach
\* the settlement call.
GuardedCallIsNoOp ==
    [][\A s \in Sweepers, r \in 1..MaxWithdrawals :
          GuardedCallStep(s, r)
              => /\ UNCHANGED <<wallets, withdrawals, transactions>>
                 /\ sw'[s].pc # "settling"]_vars

\* No withdrawal is debited by two calls: no two workers are past the debit
\* of the same id.
NoSecondDebit ==
    \A s1, s2 \in Sweepers :
        (s1 # s2 /\ sw[s1].pc = "settling" /\ sw[s2].pc = "settling")
            => sw[s1].id # sw[s2].id

\* C18: process_single_withdrawal called with an id whose withdrawal does
\* not exist or is not processing is a no-op, and this guard prevents a second
\* debit of the same id, also for a second call made while the first one is
\* running.
C18_GuardPreventsSecondDebit ==
    GuardedCallIsNoOp /\ []NoSecondDebit

\* C19: the withdrawals a sweep's claiming transaction moves to processing
\* are exactly the ids it collected: the committing step changes the status
\* of the rows of its id list and of no other row, and every withdrawal in
\* status processing is in the id list of exactly one sweep.
C19_ProcessingIsClaimed ==
    /\ [](\A r \in DOMAIN withdrawals :
            withdrawals[r].status = PROCESSING
                => Cardinality({s \in Sweepers :
                                  sw[s].pc \in {"run", "settling"} /\ r \in withdrawal_ids(s)}) = 1)
    /\ [][\A s \in Sweepers :
            (sw[s].pc = "claiming" /\ sw'[s].pc = "run")
                => {r \in DOMAIN withdrawals :
                       withdrawals'[r].status # withdrawals[r].status} = withdrawal_ids(s)]_vars

\* A pending withdrawal whose scheduled_for is earlier than the minute start
\* of the clock and of the window of every sweep that is in its claiming
\* transaction: no sweep ran during its window.
Missed(r) ==
    /\ withdrawals[r].status = PENDING
    /\ withdrawals[r].scheduled_for < now - (now % TicksPerMinute)
    /\ \A s \in Sweepers :
          sw[s].pc = "claiming" => withdrawals[r].scheduled_for < sw[s].window

\* C20: a sweep's window starts at the minute start of the clock at its
\* select and ends one minute later; the rows it selects are the pending rows
\* with scheduled_for inside that window, both ends included, that no other
\* sweep holds, and the rows its update moves to processing are pending rows
\* inside that window.  A missed withdrawal stays pending and missed in every
\* later state, so it is never claimed.
C20_ClaimWindow ==
    /\ [][\A s \in Sweepers :
            /\ (sw[s].pc = "idle" /\ sw'[s].pc = "claiming") =>
                  LET start == now - (now % TicksPerMinute) IN
                  /\ sw'[s].window = start
                  /\ sw'[s].ids =
                        {r \in DOMAIN withdrawals :
                            /\ withdrawals[r].status = PENDING
                            /\ start <= withdrawals[r].scheduled_for
                            /\ withdrawals[r].scheduled_for <= start + TicksPerMinute
                            /\ \A o \in Sweepers \ {s} :
                                  sw[o].pc = "claiming" => r \notin sw[o].ids}
            /\ (sw[s].pc = "claiming" /\ sw'[s].pc = "run") =>
                  \A r \in DOMAIN withdrawals :
                      withdrawals'[r].status # withdrawals[r].status =>
                          /\ withdrawals[r].status = PENDING
                          /\ withdrawals'[r].status = PROCESSING
                          /\ sw[s].window <= withdrawals[r].scheduled_for
                          /\ withdrawals[r].scheduled_for <= sw[s].window + TicksPerMinute]_vars
    /\ [][\A r \in DOMAIN withdrawals :
            Missed(r) =>
                /\ withdrawals'[r] = withdrawals[r]
                /\ withdrawals[r].scheduled_for < now' - (now' % TicksPerMinute)
                /\ \A s \in Sweepers :
                      sw'[s].pc = "claiming" => withdrawals[r].scheduled_for < sw'[s].window]_vars

\* C20 witness: a sweep claimed a withdrawal scheduled for the last instant
\* of its window, which the clock had not reached at the select, and another
\* withdrawal is pending with its window over.
C20_Witness ==
    \E s \in Sweepers, r, q \in DOMAIN withdrawals :
        /\ sw[s].pc \in {"run", "settling"}
        /\ r \in withdrawal_ids(s)
        /\ withdrawals[r].scheduled_for = sw[s].window + TicksPerMinute
        /\ withdrawals[r].status # PENDING
        /\ Missed(q)

====
